---- MODULE Spec2Model ----
(***************************************************************************)
(* Model of crates/blockifier/src/execution/common_hints.rs: the hints     *)
(* normalize_address_set_is_small, normalize_address_set_is_250 and alon   *)
(* (uint256_offseted_unsigned_div_rem), run against a write-once memory.   *)
(*                                                                         *)
(* Widths are scaled so that TLC's integers can hold every value: a limb   *)
(* has LimbBits bits (128 in the source), the address threshold is         *)
(* 2^AddrBits (2^250 in the source) and PRIME lies a little above          *)
(* 2^(AddrBits+1) (2^251 + 17*2^192 + 1 in the source).  The scaling keeps *)
(* the order of the source's numbers:                                      *)
(*   2^LimbBits < 2^AddrBits < 2*(2^AddrBits + 1) < PRIME < 2^(2*LimbBits) *)
(***************************************************************************)
EXTENDS Integers, Sequences, FiniteSets, TLC

\* Bits of one limb of a Uint256 (the source's 128).
LimbBits == 3

\* 1 << 128: the limb modulus of Uint256::split and of the merge.
LIMB == 2^LimbBits

\* The exponent of the is_250 threshold (the source's 250).
AddrBits == LimbBits + 1

\* 1 << 250
TWO_250 == 2^AddrBits

\* 1 << 251
TWO_251 == 2^(AddrBits + 1)

\* The field's modulus, parsed from PRIME_STR.
PRIME == TWO_251 + 5

\* The values of a Felt252.
Felt == 0..(PRIME - 1)

\* Felt252::from(BigUint): reduction modulo the prime.
FeltFrom(n) == n % PRIME

\* A memory cell nobody wrote (vm.get_integer fails on it).
NoCell == -1

\* A memory cell holding a relocatable, not an integer.
RelocCell == -2

\* The key of the constant in the constants table.
ADDR_BOUND == "starkware.starknet.common.storage.ADDR_BOUND"

\* The variables the hints name.
Names == {"a", "div", "quotient", "remainder", "addr", "is_small", "is_250"}

\* The frame's layout: the base address each variable's reference resolves to.
Layout ==
    [n \in Names |->
        CASE n = "a" -> 0
          [] n = "div" -> 2
          [] n = "quotient" -> 4
          [] n = "remainder" -> 6
          [] n = "addr" -> 8
          [] n = "is_small" -> 9
          [] n = "is_250" -> 10]

\* The addresses of the frame.
Addr == 0..10

VARIABLES
    memory,     \* the machine's memory: Addr -> Felt \cup {NoCell, RelocCell}
    ids_data,   \* the variable reference table: a function on the resolvable names
    constants,  \* the named constants: a function on a subset of {ADDR_BOUND}
    hint,       \* the hint invoked last
    offsets,    \* <<div_offset_low, div_offset_high>> of the last divider call
    result,     \* what the last invocation returned
    pre,        \* the memory the last invocation started from
    trace       \* the lookups, reads and writes of the last invocation, in order

vars == <<memory, ids_data, constants, hint, offsets, result, pre, trace>>

----------------------------------------------------------------------------
\* Results and events

\* Ok(()), an Err(HintError) or a panic of the callback.
Res(kind, name, member) == [kind |-> kind, name |-> name, member |-> member]

OK == Res("Ok", "", "")

\* One step of an invocation: a constant lookup, a variable resolution,
\* a memory read or a memory write (attempted) of val at address at.
Ev(op, name, at, val) == [op |-> op, name |-> name, at |-> at, val |-> val]

\* The content of a cell; outside the written segment there is nothing.
CellAt(mem, addr) == IF addr \in DOMAIN mem THEN mem[addr] ELSE NoCell

\* vm.get_integer(addr) succeeds iff the cell holds an integer.
IsInt(cell) == cell \in Felt

\* vm.insert_value(addr, v): write-once memory.  An empty cell takes the
\* value (the segment grows to hold it), a cell holding the same value is
\* left alone, any other cell makes the write fail
\* (MemoryError::InconsistentMemory).
insert_value(mem, addr, v) ==
    IF CellAt(mem, addr) = NoCell
    THEN [ok |-> TRUE,
          mem |-> [c \in DOMAIN mem \cup {addr} |-> IF c = addr THEN v ELSE mem[c]]]
    ELSE IF CellAt(mem, addr) = v
    THEN [ok |-> TRUE, mem |-> mem]
    ELSE [ok |-> FALSE, mem |-> mem]

\* get_integer_from_var_name(name, vm, ids_data, ap_tracking)
get_integer_from_var_name(name, mem, ids) ==
    IF name \notin DOMAIN ids
    THEN [ok |-> FALSE, val |-> 0, res |-> Res("UnknownIdentifier", name, ""),
          trace |-> <<Ev("resolve", name, NoCell, NoCell)>>]
    ELSE IF ~IsInt(CellAt(mem, ids[name]))
    THEN [ok |-> FALSE, val |-> 0, res |-> Res("IdentifierNotInteger", name, ""),
          trace |-> <<Ev("resolve", name, ids[name], NoCell),
                      Ev("read", name, ids[name], NoCell)>>]
    ELSE [ok |-> TRUE, val |-> mem[ids[name]], res |-> OK,
          trace |-> <<Ev("resolve", name, ids[name], NoCell),
                      Ev("read", name, ids[name], mem[ids[name]])>>]

\* insert_value_from_var_name(name, value, vm, ids_data, ap_tracking)
insert_value_from_var_name(name, v, mem, ids) ==
    IF name \notin DOMAIN ids
    THEN [mem |-> mem, res |-> Res("UnknownIdentifier", name, ""),
          trace |-> <<Ev("resolve", name, NoCell, NoCell)>>]
    ELSE LET wr == insert_value(mem, ids[name], v)
         IN [mem |-> wr.mem,
             res |-> IF wr.ok THEN OK ELSE Res("InconsistentMemory", "", ""),
             trace |-> <<Ev("resolve", name, ids[name], NoCell),
                         Ev("write", name, ids[name], v)>>]

----------------------------------------------------------------------------
\* Address Classifier

\* The assertion of normalize_address_set_is_small on ADDR_BOUND and the prime.
bounds_hold(addr_bound, prime) ==
    /\ addr_bound > TWO_250
    /\ addr_bound <= TWO_251
    /\ prime > 2 * TWO_250
    /\ prime < 2 * addr_bound

is_small_value_le(addr, addr_bound) == IF addr <= addr_bound THEN 1 ELSE 0

\* if addr < *addr_bound { one } else { zero }
is_small_value(addr, addr_bound) == IF addr < addr_bound THEN 1 ELSE 0

is_250_value_le(addr) == IF addr <= FeltFrom(1 * TWO_250) THEN 1 ELSE 0

\* if *addr < (Felt252::one() << 250) { one } else { zero }
is_250_value(addr) == IF addr < FeltFrom(1 * TWO_250) THEN 1 ELSE 0

\* The hint normalize_address_set_is_small: [mem, res, trace].
normalize_address_set_is_small(mem, ids, consts) ==
    LET lookup == <<Ev("lookup", ADDR_BOUND, NoCell, NoCell)>>
    IN  IF ADDR_BOUND \notin DOMAIN consts
        THEN [mem |-> mem, res |-> Res("MissingConstant", "ADDR_BOUND", ""),
              trace |-> lookup]
        ELSE
        LET addr_bound == consts[ADDR_BOUND]
            addr == get_integer_from_var_name("addr", mem, ids)
        IN  IF ~addr.ok
            THEN [mem |-> mem, res |-> addr.res, trace |-> lookup \o addr.trace]
            ELSE IF ~bounds_hold(addr_bound, PRIME)
            THEN [mem |-> mem, res |-> Res("AssertionFailed", "", ""),
                  trace |-> lookup \o addr.trace]
            ELSE
            LET is_small == is_small_value(addr.val, addr_bound)
                wr == insert_value_from_var_name("is_small", is_small, mem, ids)
            IN  [mem |-> wr.mem, res |-> wr.res,
                 trace |-> lookup \o addr.trace \o wr.trace]

\* The hint normalize_address_set_is_250: [mem, res, trace].
normalize_address_set_is_250(mem, ids, consts) ==
    LET addr == get_integer_from_var_name("addr", mem, ids)
    IN  IF ~addr.ok
        THEN [mem |-> mem, res |-> addr.res, trace |-> addr.trace]
        ELSE
        LET is_250 == is_250_value(addr.val)
            wr == insert_value_from_var_name("is_250", is_250, mem, ids)
        IN  [mem |-> wr.mem, res |-> wr.res, trace |-> addr.trace \o wr.trace]

----------------------------------------------------------------------------
\* Wide Integer (Uint256)

\* Uint256::from_base_addr: the limbs at addr and addr + 1.
from_base_addr(addr, name, mem) ==
    IF ~IsInt(CellAt(mem, addr))
    THEN [ok |-> FALSE, low |-> 0, high |-> 0,
          res |-> Res("IdentifierHasNoMember", name, "low"),
          trace |-> <<Ev("read", name, addr, NoCell)>>]
    ELSE IF ~IsInt(CellAt(mem, addr + 1))
    THEN [ok |-> FALSE, low |-> 0, high |-> 0,
          res |-> Res("IdentifierHasNoMember", name, "high"),
          trace |-> <<Ev("read", name, addr, mem[addr]),
                      Ev("read", name, addr + 1, NoCell)>>]
    ELSE [ok |-> TRUE, low |-> mem[addr], high |-> mem[addr + 1], res |-> OK,
          trace |-> <<Ev("read", name, addr, mem[addr]),
                      Ev("read", name, addr + 1, mem[addr + 1])>>]

\* Uint256::from_var_name: resolve the name, then from_base_addr.
from_var_name(name, mem, ids) ==
    IF name \notin DOMAIN ids
    THEN [ok |-> FALSE, low |-> 0, high |-> 0,
          res |-> Res("UnknownIdentifier", name, ""),
          trace |-> <<Ev("resolve", name, NoCell, NoCell)>>]
    ELSE LET u == from_base_addr(ids[name], name, mem)
         IN  [u EXCEPT !.trace = <<Ev("resolve", name, ids[name], NoCell)>> \o @]

\* Uint256::from_values
from_values(low, high) == [low |-> low, high |-> high]

split_wide_mask(num) == from_values(FeltFrom(num % (2 * LIMB)), FeltFrom(num \div LIMB))

\* Uint256::split: low = num & u128::MAX, high = num >> 128, each made a felt.
split(num) == from_values(FeltFrom(num % LIMB), FeltFrom(num \div LIMB))

insert_from_var_name_high_first(u, var_name, mem, ids) ==
    IF var_name \notin DOMAIN ids
    THEN [mem |-> mem, res |-> Res("UnknownIdentifier", var_name, ""),
          trace |-> <<Ev("resolve", var_name, NoCell, NoCell)>>]
    ELSE
    LET addr == ids[var_name]
        rs == <<Ev("resolve", var_name, addr, NoCell)>>
        w1 == insert_value(mem, addr + 1, u.high)
        e1 == <<Ev("write", var_name, addr + 1, u.high)>>
    IN  IF ~w1.ok
        THEN [mem |-> w1.mem, res |-> Res("InconsistentMemory", "", ""),
              trace |-> rs \o e1]
        ELSE
        LET w2 == insert_value(w1.mem, addr, u.low)
            e2 == <<Ev("write", var_name, addr, u.low)>>
        IN  [mem |-> w2.mem,
             res |-> IF w2.ok THEN OK ELSE Res("InconsistentMemory", "", ""),
             trace |-> rs \o e1 \o e2]

insert_from_var_name_unchecked(u, var_name, mem, ids) ==
    IF var_name \notin DOMAIN ids
    THEN [mem |-> mem, res |-> Res("UnknownIdentifier", var_name, ""),
          trace |-> <<Ev("resolve", var_name, NoCell, NoCell)>>]
    ELSE
    LET addr == ids[var_name]
        w1 == insert_value(mem, addr, u.low)
        w2 == insert_value(w1.mem, addr + 1, u.high)
    IN  [mem |-> w2.mem, res |-> OK,
         trace |-> <<Ev("resolve", var_name, addr, NoCell),
                     Ev("write", var_name, addr, u.low),
                     Ev("write", var_name, addr + 1, u.high)>>]

\* Uint256::insert_from_var_name: resolve the name, write low at the base
\* address, then high at base + 1; the first failing step ends it.
insert_from_var_name(u, var_name, mem, ids) ==
    IF var_name \notin DOMAIN ids
    THEN [mem |-> mem, res |-> Res("UnknownIdentifier", var_name, ""),
          trace |-> <<Ev("resolve", var_name, NoCell, NoCell)>>]
    ELSE
    LET addr == ids[var_name]
        rs == <<Ev("resolve", var_name, addr, NoCell)>>
        w1 == insert_value(mem, addr, u.low)
        e1 == <<Ev("write", var_name, addr, u.low)>>
    IN  IF ~w1.ok
        THEN [mem |-> w1.mem, res |-> Res("InconsistentMemory", "", ""),
              trace |-> rs \o e1]
        ELSE
        LET w2 == insert_value(w1.mem, addr + 1, u.high)
            e2 == <<Ev("write", var_name, addr + 1, u.high)>>
        IN  [mem |-> w2.mem,
             res |-> IF w2.ok THEN OK ELSE Res("InconsistentMemory", "", ""),
             trace |-> rs \o e1 \o e2]

----------------------------------------------------------------------------
\* Wide-Integer Divider

merge_wide_shift(low, high) == high * (2 * LIMB) + low

\* (high.to_biguint() << 128) + low.to_biguint()
merge(low, high) == high * LIMB + low

\* num_integer::div_rem on BigUint: panics on a zero divisor.
div_rem(a, d) ==
    IF d = 0
    THEN [panic |-> TRUE, q |-> 0, r |-> 0]
    ELSE [panic |-> FALSE, q |-> a \div d, r |-> a % d]

\* The steps of the divider once a has been read: resolve div, read its two
\* limbs, divide, write quotient, then remainder.  reread is the trace of
\* reads done between the two result writes (none in the source).
divide_and_write(a, mem, ids, div_offset_low, div_offset_high, reread) ==
    IF "div" \notin DOMAIN ids
    THEN [mem |-> mem, res |-> Res("UnknownIdentifier", "div", ""),
          trace |-> a.trace \o <<Ev("resolve", "div", NoCell, NoCell)>>]
    ELSE
    LET div_addr == ids["div"]
        lo_at == div_addr + div_offset_low
        hi_at == div_addr + div_offset_high
        t0 == a.trace \o <<Ev("resolve", "div", div_addr, NoCell)>>
    IN  IF ~IsInt(CellAt(mem, lo_at))
        THEN [mem |-> mem, res |-> Res("MemoryError", "", ""),
              trace |-> t0 \o <<Ev("read", "div", lo_at, NoCell)>>]
        ELSE IF ~IsInt(CellAt(mem, hi_at))
        THEN [mem |-> mem, res |-> Res("MemoryError", "", ""),
              trace |-> t0 \o <<Ev("read", "div", lo_at, mem[lo_at]),
                                Ev("read", "div", hi_at, NoCell)>>]
        ELSE
        LET t1 == t0 \o <<Ev("read", "div", lo_at, mem[lo_at]),
                          Ev("read", "div", hi_at, mem[hi_at])>>
            qr == div_rem(merge(a.low, a.high), merge(mem[lo_at], mem[hi_at]))
        IN  IF qr.panic
            THEN [mem |-> mem, res |-> Res("Panic", "", ""), trace |-> t1]
            ELSE
            LET wq == insert_from_var_name(split(qr.q), "quotient", mem, ids)
            IN  IF wq.res # OK
                THEN [mem |-> wq.mem, res |-> wq.res, trace |-> t1 \o wq.trace]
                ELSE
                LET wr == insert_from_var_name(split(qr.r), "remainder", wq.mem, ids)
                IN  [mem |-> wr.mem, res |-> wr.res,
                     trace |-> t1 \o wq.trace \o reread \o wr.trace]

uint256_offseted_unsigned_div_rem_late_read(mem, ids, div_offset_low, div_offset_high) ==
    LET a == from_var_name("a", mem, ids)
    IN  IF ~a.ok
        THEN [mem |-> mem, res |-> a.res, trace |-> a.trace]
        ELSE divide_and_write(a, mem, ids, div_offset_low, div_offset_high,
                 <<Ev("read", "div", ids["div"] + div_offset_low, NoCell)>>)

\* uint256_offseted_unsigned_div_rem: [mem, res, trace].
uint256_offseted_unsigned_div_rem(mem, ids, div_offset_low, div_offset_high) ==
    LET a == from_var_name("a", mem, ids)
    IN  IF ~a.ok
        THEN [mem |-> mem, res |-> a.res, trace |-> a.trace]
        ELSE divide_and_write(a, mem, ids, div_offset_low, div_offset_high, << >>)

\* The hint alon: the divider with the divisor's limbs at offsets 0 and 1.
alon(mem, ids) == uint256_offseted_unsigned_div_rem(mem, ids, 0, 1)

----------------------------------------------------------------------------
\* The machine: a frame (variable table, constants, memory) on which the
\* host invokes the hints any number of times.

\* The variable tables: the layout, whole or without one name of among.
IdsChoices(among) ==
    {Layout} \cup {[n \in Names \ {m} |-> Layout[n]] : m \in among}

\* The values ADDR_BOUND takes (around the assertion's four limits).
BoundChoices ==
    {TWO_250, TWO_250 + 1, (PRIME + 1) \div 2 - 1, (PRIME + 1) \div 2,
     TWO_251 - 1, TWO_251, TWO_251 + 1}

\* The constants tables: without ADDR_BOUND, or with one of its values.
ConstChoices ==
    {<< >>} \cup {[k \in {ADDR_BOUND} |-> b] : b \in BoundChoices}

\* What an operand limb's cell may hold when the hint is invoked.
OperandCells == {NoCell, RelocCell, 0, 2, 5, PRIME - 1}

\* What a result cell may hold before the hint is invoked.
ResultCells == {NoCell, RelocCell, 0, 1}

\* Memories of a frame about to divide: any operands, and the four output
\* limbs empty but for the cells of occ.
DivMemories ==
    {[c \in Addr |->
        CASE c \in 0..3 -> ops[c]
          [] c \in 4..7 -> IF c \in occ THEN v ELSE NoCell
          [] OTHER -> NoCell] :
        ops \in [0..3 -> OperandCells],
        occ \in {{}} \cup {{c} : c \in 4..7},
        v \in {RelocCell, 0}}

\* Memories of a frame about to classify an address.
AddrMemories ==
    {[c \in Addr |->
        CASE c = 8 -> ad
          [] c = 9 -> s
          [] c = 10 -> t
          [] OTHER -> NoCell] :
        ad \in Felt \cup {NoCell, RelocCell}, s \in ResultCells, t \in ResultCells}

Init ==
    /\ \/ /\ memory \in DivMemories
          /\ ids_data \in IdsChoices({"a", "div", "quotient", "remainder"})
          /\ constants = << >>
       \/ /\ memory \in AddrMemories
          /\ ids_data \in IdsChoices({"addr", "is_small", "is_250"})
          /\ constants \in ConstChoices
    /\ pre = memory
    /\ hint = "none"
    /\ offsets = <<0, 1>>
    /\ result = Res("None", "", "")
    /\ trace = << >>

\* The host runs hint h: out is what the callback did.
Invoke(h, offs, out) ==
    /\ memory' = out.mem
    /\ result' = out.res
    /\ trace' = out.trace
    /\ pre' = memory
    /\ hint' = h
    /\ offsets' = offs
    /\ UNCHANGED <<ids_data, constants>>

NormalizeAddressSetIsSmall ==
    Invoke("normalize_address_set_is_small", <<0, 1>>,
           normalize_address_set_is_small(memory, ids_data, constants))

NormalizeAddressSetIs250 ==
    Invoke("normalize_address_set_is_250", <<0, 1>>,
           normalize_address_set_is_250(memory, ids_data, constants))

Alon == Invoke("alon", <<0, 1>>, alon(memory, ids_data))

\* The offset pairs the generic divider is called with.
DivOffsets == {<<0, 1>>, <<1, 0>>}

OffsetedDivRem ==
    \E offs \in DivOffsets :
        Invoke("uint256_offseted_unsigned_div_rem", offs,
               uint256_offseted_unsigned_div_rem(memory, ids_data, offs[1], offs[2]))

Next ==
    \/ NormalizeAddressSetIsSmall
    \/ NormalizeAddressSetIs250
    \/ Alon
    \/ OffsetedDivRem

Spec == Init /\ [][Next]_vars

----------------------------------------------------------------------------
\* Properties

\* The last invocation was the divider (through alon or directly).
IsDivider == hint \in {"alon", "uint256_offseted_unsigned_div_rem"}

\* The addresses the last divider call read its operands at and wrote
\* its results to (defined when the names resolve).
ALow == ids_data["a"]
AHigh == ids_data["a"] + 1
DLow == ids_data["div"] + offsets[1]
DHigh == ids_data["div"] + offsets[2]
QLow == ids_data["quotient"]
QHigh == ids_data["quotient"] + 1
RLow == ids_data["remainder"]
RHigh == ids_data["remainder"] + 1

DivNamesResolve == {"a", "div", "quotient", "remainder"} \subseteq DOMAIN ids_data

\* The write events of the last invocation, in order.
IsWrite(e) == e.op = "write"
Writes == SelectSeq(trace, IsWrite)

\* C1: for 256-bit a and d # 0 stored as (value mod 2^128, value div 2^128),
\* a successful divider run with offsets (0,1) into empty output cells writes
\* q and r with q*d + r = a and r < d.
C1_DivModCorrect ==
    ( /\ IsDivider /\ offsets = <<0, 1>> /\ result = OK
      /\ DivNamesResolve
      /\ \A c \in {ALow, AHigh, DLow, DHigh} : pre[c] \in 0..(LIMB - 1)
      /\ pre[DLow] + pre[DHigh] * LIMB # 0
      /\ \A c \in {QLow, QHigh, RLow, RHigh} : pre[c] = NoCell )
    => LET a == pre[ALow] + pre[AHigh] * LIMB
           d == pre[DLow] + pre[DHigh] * LIMB
           q == memory[QLow] + memory[QHigh] * LIMB
           r == memory[RLow] + memory[RHigh] * LIMB
       IN  /\ \A c \in {QLow, QHigh, RLow, RHigh} : memory[c] \in 0..(LIMB - 1)
           /\ q * d + r = a
           /\ r < d

\* alon ran on a = (5,0), div = (2,0) and wrote quotient (2,0), remainder (1,0).
C1_Witness ==
    /\ hint = "alon" /\ result = OK /\ DivNamesResolve
    /\ pre[ALow] = 5 /\ pre[AHigh] = 0 /\ pre[DLow] = 2 /\ pre[DHigh] = 0
    /\ \A c \in {QLow, QHigh, RLow, RHigh} : pre[c] = NoCell
    /\ memory[QLow] = 2 /\ memory[QHigh] = 0
    /\ memory[RLow] = 1 /\ memory[RHigh] = 0

\* C2: when the divisor read from div is zero, the divider returns an
\* ArithmeticFault error and writes nothing.
C2_DivByZeroReturnsArithmeticFault ==
    ( /\ IsDivider
      /\ {"a", "div"} \subseteq DOMAIN ids_data
      /\ IsInt(pre[ALow]) /\ IsInt(pre[AHigh])
      /\ pre[DLow] = 0 /\ pre[DHigh] = 0 )
    => result.kind = "ArithmeticFault" /\ memory = pre

\* The four relations set_is_small asserts, as the specification states them.
FourRelations(bound) ==
    /\ TWO_250 < bound
    /\ bound <= TWO_251
    /\ 2 * TWO_250 < PRIME
    /\ PRIME < 2 * bound

\* C3: with ADDR_BOUND present and one of the four relations failing,
\* set_is_small fails with AssertionFailed and writes nothing, whatever addr
\* is, even unresolvable or not an integer.
C3_AssertionBeforeAddr ==
    ( /\ hint = "normalize_address_set_is_small"
      /\ ADDR_BOUND \in DOMAIN constants
      /\ ~FourRelations(constants[ADDR_BOUND]) )
    => result.kind = "AssertionFailed" /\ memory = pre

\* The last invocation was set_is_small with addr readable.
IsSmallRead ==
    /\ hint = "normalize_address_set_is_small"
    /\ ADDR_BOUND \in DOMAIN constants
    /\ "addr" \in DOMAIN ids_data
    /\ IsInt(pre[ids_data["addr"]])

\* C4 (as claimed): with ADDR_BOUND = 2^250 + 1, set_is_small succeeds and
\* writes 1 for addr = 2^250 and 0 for addr = 2^250 + 1; and whenever it
\* succeeds it writes 1 if addr < ADDR_BOUND and 0 otherwise.
C4_Original ==
    /\ ( /\ IsSmallRead
         /\ constants[ADDR_BOUND] = TWO_250 + 1
         /\ "is_small" \in DOMAIN ids_data
         /\ pre[ids_data["is_small"]] = NoCell
         /\ pre[ids_data["addr"]] \in {TWO_250, TWO_250 + 1} )
       => /\ result = OK
          /\ memory[ids_data["is_small"]] =
                 IF pre[ids_data["addr"]] = TWO_250 THEN 1 ELSE 0
    /\ (hint = "normalize_address_set_is_small" /\ result = OK)
       => memory[ids_data["is_small"]] =
              IF pre[ids_data["addr"]] < constants[ADDR_BOUND] THEN 1 ELSE 0

\* C4 (amended): with ADDR_BOUND = 2^250 + 1 the prime is not below
\* 2 * ADDR_BOUND, so set_is_small fails with AssertionFailed and writes
\* nothing; whenever it succeeds it writes 1 if addr < ADDR_BOUND, else 0.
C4_IsSmallValue ==
    /\ (IsSmallRead /\ constants[ADDR_BOUND] = TWO_250 + 1)
       => result.kind = "AssertionFailed" /\ memory = pre
    /\ (hint = "normalize_address_set_is_small" /\ result = OK)
       => /\ FourRelations(constants[ADDR_BOUND])
          /\ memory[ids_data["is_small"]] =
                 IF pre[ids_data["addr"]] < constants[ADDR_BOUND] THEN 1 ELSE 0

\* set_is_small succeeded on addr = 2^250 and wrote 1 into the empty cell.
C4_Witness ==
    /\ IsSmallRead /\ result = OK
    /\ pre[ids_data["addr"]] = TWO_250
    /\ pre[ids_data["is_small"]] = NoCell
    /\ memory[ids_data["is_small"]] = 1

\* C5: for every readable addr and an empty is_250 cell, set_is_250 succeeds
\* and writes 1 if addr < 2^250, else 0, whatever the constants table holds.
C5_Is250Value ==
    ( /\ hint = "normalize_address_set_is_250"
      /\ {"addr", "is_250"} \subseteq DOMAIN ids_data
      /\ IsInt(pre[ids_data["addr"]])
      /\ pre[ids_data["is_250"]] = NoCell )
    => /\ result = OK
       /\ memory[ids_data["is_250"]] =
              IF pre[ids_data["addr"]] < TWO_250 THEN 1 ELSE 0
       /\ \A c \in Addr \ {ids_data["is_250"]} : memory[c] = pre[c]

\* set_is_250 wrote 1 for addr = 2^250 - 1 with an empty constants table.
C5_Witness ==
    /\ hint = "normalize_address_set_is_250" /\ result = OK
    /\ constants = << >>
    /\ pre[ids_data["addr"]] = TWO_250 - 1
    /\ pre[ids_data["is_250"]] = NoCell
    /\ memory[ids_data["is_250"]] = 1

\* C6: no invocation changes a cell that held a value, and an invocation
\* whose write targets a cell holding a different value ends there with the
\* memory's InconsistentMemory error.
C6_WriteOnce ==
    /\ \A c \in Addr : pre[c] # NoCell => memory[c] = pre[c]
    /\ \A i \in 1..Len(trace) :
           (trace[i].op = "write" /\ pre[trace[i].at] \notin {NoCell, trace[i].val})
           => /\ result.kind = "InconsistentMemory"
              /\ i = Len(trace)
              /\ memory[trace[i].at] = pre[trace[i].at]

\* The divider's write hit a cell holding another integer and failed.
C6_Witness ==
    /\ IsDivider /\ result.kind = "InconsistentMemory"
    /\ Len(trace) > 0
    /\ trace[Len(trace)].op = "write"
    /\ IsInt(pre[trace[Len(trace)].at])
    /\ pre[trace[Len(trace)].at] # trace[Len(trace)].val
    /\ memory[trace[Len(trace)].at] = pre[trace[Len(trace)].at]

\* The outcome of the divider on an absent limb of a.
ALimbAbsent ==
    /\ ~IsInt(pre[ALow])
       => result = Res("IdentifierHasNoMember", "a", "low") /\ memory = pre
    /\ (IsInt(pre[ALow]) /\ ~IsInt(pre[AHigh]))
       => result = Res("IdentifierHasNoMember", "a", "high") /\ memory = pre

\* C7: an absent limb of a or of div makes the divider fail with the
\* no-such-member error naming the operand and the limb, for div exactly as
\* for a, and nothing is written.
C7_AbsentLimbTagged ==
    (IsDivider /\ {"a", "div"} \subseteq DOMAIN ids_data)
    => /\ ALimbAbsent
       /\ (IsInt(pre[ALow]) /\ IsInt(pre[AHigh]) /\ ~IsInt(pre[DLow]))
          => result = Res("IdentifierHasNoMember", "div", "low") /\ memory = pre
       /\ (IsInt(pre[ALow]) /\ IsInt(pre[AHigh]) /\ IsInt(pre[DLow])
             /\ ~IsInt(pre[DHigh]))
          => result = Res("IdentifierHasNoMember", "div", "high") /\ memory = pre

\* C8 (as claimed): after every successful divider invocation, whatever
\* field elements the operand limbs hold, each written limb is below 2^128.
C8_Original ==
    (IsDivider /\ result = OK)
    => \A c \in {QLow, QHigh, RLow, RHigh} : memory[c] < LIMB

\* C8 (amended): after a successful divider invocation the low limbs written
\* are below 2^128, and the high limbs too when the four operand limbs read
\* are below 2^128.
C8_LimbsFit ==
    (IsDivider /\ result = OK)
    => /\ memory[QLow] < LIMB /\ memory[RLow] < LIMB
       /\ (\A c \in {ALow, AHigh, DLow, DHigh} : pre[c] < LIMB)
          => memory[QHigh] < LIMB /\ memory[RHigh] < LIMB

\* The divider divided (5,5) by (2,0) and wrote a quotient with high limb 2.
C8_Witness ==
    /\ IsDivider /\ result = OK /\ offsets = <<0, 1>>
    /\ pre[ALow] = 5 /\ pre[AHigh] = 5 /\ pre[DLow] = 2 /\ pre[DHigh] = 0
    /\ pre[QHigh] = NoCell
    /\ memory[QHigh] = 2 /\ memory[QLow] < LIMB

\* C9: in one invocation no constant lookup and no operand read follows a
\* write, and an invocation that fails looking up a constant or reading an
\* operand leaves the memory as it was.
C9_ReadsBeforeWrites ==
    /\ \A i \in 1..Len(trace) : \A j \in (i + 1)..Len(trace) :
           trace[i].op = "write" => trace[j].op \notin {"read", "lookup"}
    /\ ( \/ result.kind \in {"MissingConstant", "IdentifierNotInteger",
                             "IdentifierHasNoMember", "MemoryError"}
         \/ (result.kind = "UnknownIdentifier"
               /\ result.name \in {"a", "div", "addr"}) )
       => memory = pre

\* The divider read its four operand limbs and then wrote its results.
C9_Witness ==
    /\ hint = "alon" /\ result = OK /\ memory # pre
    /\ Len(Writes) = 4
    /\ Cardinality({i \in 1..Len(trace) : trace[i].op = "read"}) = 4

\* The k-th output cell of the divider: quotient.low, quotient.high,
\* remainder.low, remainder.high.
Target(k) ==
    IF k <= 2 THEN ids_data["quotient"] + (k - 1)
    ELSE ids_data["remainder"] + (k - 3)

\* The i-th write of the last invocation found its cell empty or equal.
Succeeded(i) == pre[Writes[i].at] \in {NoCell, Writes[i].val}

\* C10: the divider writes quotient.low, quotient.high, remainder.low,
\* remainder.high in this order and stops at the first write that fails or
\* name that does not resolve: the writes before it stay, those after it are
\* not attempted, and Ok is returned only after all four succeeded.
C10_WriteOrder ==
    IsDivider =>
    LET n == Len(Writes)
    IN  /\ n <= 4
        /\ \A i \in 1..n : Writes[i].at = Target(i)
        /\ \A i \in 1..(n - 1) : Succeeded(i)
        /\ \A i \in 1..n : Succeeded(i) => memory[Writes[i].at] = Writes[i].val
        /\ \A c \in Addr \ {Writes[i].at : i \in 1..n} : memory[c] = pre[c]
        /\ (n > 0 /\ ~Succeeded(n))
           => result.kind = "InconsistentMemory"
                /\ memory[Writes[n].at] = pre[Writes[n].at]
        /\ result = OK <=> (n = 4 /\ Succeeded(4))
        /\ (n = 2 /\ Succeeded(2)) => result = Res("UnknownIdentifier", "remainder", "")
        /\ n \notin {1, 3} \/ ~Succeeded(n)

\* The fourth write failed: the divider returned an error with three of its
\* output cells written.
C10_Witness ==
    /\ IsDivider /\ result.kind = "InconsistentMemory"
    /\ Len(Writes) = 4
    /\ \A k \in 1..3 : pre[Target(k)] = NoCell /\ memory[Target(k)] = Writes[k].val
    /\ memory[Target(4)] = pre[Target(4)]

====
